---- MODULE Spec2Model ----
(***************************************************************************)
(* HeyHost live quiz sessions: the durable store (sessions,                *)
(* session_players, session_question_state, session_answers with their    *)
(* constraints, row policies and the score trigger), the host remote, the  *)
(* player client, the change feed between them, the point computation,    *)
(* the display-name resolution of a join and the join-code allocation.    *)
(*                                                                         *)
(* Times are milliseconds.  The host's clock is the reference clock `now`; *)
(* a player's Date.now() is `now` plus a skew chosen at each reading.      *)
(***************************************************************************)
EXTENDS Integers, Sequences, FiniteSets, TLC

\* ------------------------------------------------------------------ bounds
NumQuestions == 2       \* questions of the game being played
NumClients == 2         \* player devices connected to the session
NumChoices == 2         \* answer choices per question (choice 1 is the correct one)
MaxTime == 2            \* the reference clock runs over 0 .. MaxTime ticks
TickMs == 15000         \* milliseconds per clock tick
MaxSkewTicks == 1       \* a player's clock is at most this many ticks off
MaxInbox == 2           \* change events a channel holds undelivered
MaxOutbox == 2          \* answer inserts of one client in flight
NumCreators == 2        \* hosts creating sessions concurrently
NumCodes == 2           \* distinct join codes generateGameCode can return
MaxSessions == 3        \* rows of the sessions table in the creation scenario

\* ------------------------------------------------------- program constants
BASE_POINTS == 1000
MAX_SPEED_BONUS == 500
DefaultTimerSeconds == 30
MaxCodeAttempts == 5

\* ----------------------------------------------------------------- values
Null == <<>>
Some(v) == <<v>>
IsNull(x) == x = <<>>
Val(x) == x[1]

Max(a, b) == IF a >= b THEN a ELSE b

Host == 0
Clients == 1 .. NumClients
Display == NumClients + 1
Subscribers == {Host} \cup Clients \cup {Display}
QuestionIndexes == 0 .. (NumQuestions - 1)
Choices == 1 .. NumChoices
LiveSession == 1
Creators == 1 .. NumCreators
Codes == 1 .. NumCodes

VARIABLES
  now,            \* reference clock, ms
  sessions,       \* table sessions: sequence of rows, id = position
  qstates,        \* table session_question_state
  players,        \* table session_players
  answers,        \* table session_answers
  subscribed,     \* the clients whose page holds a channel on the session
  inbox,          \* per subscriber: the change events of its channel not yet handled
  h_session,      \* HostRemotePage state: session
  h_qs,           \* HostRemotePage state: questionState (Null or Some(row))
  h_players,      \* HostRemotePage state: ids of the players list
  h_timerSeconds, \* HostRemotePage state: timerSeconds
  h_pc,           \* HostRemotePage: the insert a running startGame/nextQuestion still has to send
  p_phase,        \* PlayerSessionPage state per client: phase
  p_session,      \* PlayerSessionPage state: session
  p_player,       \* PlayerSessionPage state: player (Null or Some(id))
  p_qs,           \* PlayerSessionPage state: questionState
  p_sel,          \* PlayerSessionPage state: selectedChoiceId
  p_result,       \* PlayerSessionPage state: answerResult
  p_dirty,        \* state was set by handleAnswer and the page has not re-rendered yet
  p_join,         \* handleJoin: the name the running join still has to insert
  p_out,          \* handleAnswer: session_answers inserts sent and not yet executed
  p_error,        \* PlayerSessionPage state: error is set (the join failed)
  p_timeLeft,     \* PlayerSessionPage state: timeLeft, seconds
  p_players,      \* PlayerSessionPage state: ids of the players list
  p_stored,       \* localStorage of the device: heyhost-player-<session id>
  p_score,        \* PlayerSessionPage state: score of the row held in player
  d_session,      \* GameScreenPage state: session (Null until the page has loaded)
  d_qs,           \* GameScreenPage state: questionState
  d_players,      \* GameScreenPage state: ids of the players list
  d_timeLeft,     \* GameScreenPage state: timeLeft, seconds
  d_showLeaderboard, \* GameScreenPage state: showLeaderboard
  creator,        \* handleStartSession per creating host: position, candidate code, attempts
  scoring,        \* one application of the point computation: inputs and results
  naming,         \* one application of handleJoin's name resolution: inputs and result
  game_timer      \* table games: timer_seconds of the game the live session plays

storeVars == <<sessions, qstates, players, answers>>
feedVars == <<subscribed, inbox>>
hostVars == <<h_session, h_qs, h_players, h_timerSeconds, h_pc>>
pageVars == <<p_timeLeft, p_players, p_stored, p_score>>
playerVars == <<p_phase, p_session, p_player, p_qs, p_sel, p_result, p_dirty, p_join, p_out, p_error, pageVars>>
displayVars == <<d_session, d_qs, d_players, d_timeLeft, d_showLeaderboard>>
otherVars == <<creator, scoring, naming, displayVars, game_timer>>
vars == <<now, storeVars, feedVars, hostVars, playerVars, otherVars>>

\* ------------------------------------------------------------------ store
\* sessions row as inserted by handleStartSession (status lobby, index -1)
NewSessionRow(id, code, timer, bonus) ==
  [id |-> id, code |-> code, status |-> "lobby", current_question_index |-> -1,
   timer_seconds |-> timer, speed_bonus |-> bonus, ended_at |-> Null]

Event(table, type, row) == [table |-> table, eventType |-> type, new |-> row]

Room == \A c \in subscribed : Len(inbox[c]) < MaxInbox

\* The model holds of a page's players list the ids in it.  A session_players
\* event that changes no list of ids and no phase (the score update of a player who
\* is not removed) is not queued.
PlayerEventFor(c, ev) == ev.eventType = "INSERT" \/ ev.new.is_removed

\* subscribeToSession: one channel per client carries the changes of the session's
\* rows, in commit order
Publish(ev) ==
  [c \in Subscribers |->
     IF c \in subscribed /\ (ev.table = "session_players" => PlayerEventFor(c, ev))
     THEN Append(inbox[c], ev) ELSE inbox[c]]

\* INSERT INTO session_players
InsertPlayer(row) ==
  /\ Room
  /\ players' = Append(players, row)
  /\ inbox' = Publish(Event("session_players", "INSERT", row))

\* UPDATE session_players ... WHERE id = pid
UpdatePlayer(pid, row) ==
  /\ Room
  /\ players' = [players EXCEPT ![pid] = row]
  /\ inbox' = Publish(Event("session_players", "UPDATE", row))

\* policy "Anyone can submit answers": the session is playing
AnswerAllowed(sid) == sessions[sid].status = "playing"

\* session_answers without its unique constraint
AnswerUniqueDropped(row) == TRUE

\* unique(session_id, player_id, question_id)
AnswerUnique(row) ==
  \A i \in 1 .. Len(answers) :
    ~(/\ answers[i].session_id = row.session_id
      /\ answers[i].player_id = row.player_id
      /\ answers[i].question_id = row.question_id)

\* select coalesce(sum(points_awarded), 0) from session_answers where player_id = pid
RECURSIVE SumPoints(_, _)
SumPoints(rows, pid) ==
  IF rows = <<>> THEN 0
  ELSE (IF Head(rows).player_id = pid THEN Head(rows).points_awarded ELSE 0)
       + SumPoints(Tail(rows), pid)

\* a trigger that stores the points of the inserted row as the score
update_player_score_last(new, rows) ==
  [players EXCEPT ![new.player_id].score = new.points_awarded]

\* a trigger whose update has no where clause: every row gets the player's sum
update_player_score_all(new, rows) ==
  [i \in DOMAIN players |-> [players[i] EXCEPT !.score = SumPoints(rows, new.player_id)]]

\* trigger on_answer_inserted: update_player_score recomputes the player's score
update_player_score(new, rows) ==
  [players EXCEPT ![new.player_id].score = SumPoints(rows, new.player_id)]

\* INSERT INTO session_answers: rejected by the policy or the unique constraint,
\* otherwise the row is stored and the trigger runs in the same transaction
InsertAnswer(row) ==
  IF AnswerAllowed(row.session_id) /\ AnswerUnique(row)
  THEN LET scored == update_player_score(row, Append(answers, row))
           ev == Event("session_players", "UPDATE", scored[row.player_id])
       IN /\ (\E c \in subscribed : PlayerEventFor(c, ev)) => Room
          /\ answers' = Append(answers, row)
          /\ players' = scored
          /\ inbox' = Publish(ev)
  ELSE UNCHANGED <<answers, players, inbox>>

\* --------------------------------------------------------------- scoring
\* Math.floor in place of Math.round
RoundDivFloor(n, d) == n \div d

\* Math.round of the rational n / d (d > 0): the nearest integer, halves upwards
RoundDiv(n, d) == (2 * n + d) \div (2 * d)

\* MAX_SPEED_BONUS * max(0, 1 - timeMs / totalMs), rounded (totalMs > 0)
SpeedBonus(timeMs, totalMs) ==
  IF timeMs >= totalMs THEN 0
  ELSE RoundDiv(MAX_SPEED_BONUS * (totalMs - timeMs), totalMs)

\* lib/scoring calculatePoints
calculatePoints(isCorrect, timeMs, timerSeconds, speedBonusEnabled) ==
  IF ~isCorrect THEN 0
  ELSE IF speedBonusEnabled
       THEN BASE_POINTS + SpeedBonus(timeMs, timerSeconds * 1000)
       ELSE BASE_POINTS

\* an inlined computation without the lower clamp of the fraction
AnswerPointsUnclamped(isCorrect, timeMs, session) ==
  IF isCorrect
  THEN IF session.speed_bonus
       THEN 1000 + RoundDiv(500 * (session.timer_seconds * 1000 - timeMs),
                            session.timer_seconds * 1000)
       ELSE 1000
  ELSE 0

\* the point computation written out in handleAnswer
AnswerPoints(isCorrect, timeMs, session) ==
  IF isCorrect
  THEN IF session.speed_bonus
       THEN 1000 + (IF timeMs >= session.timer_seconds * 1000 THEN 0
                    ELSE RoundDiv(500 * (session.timer_seconds * 1000 - timeMs),
                                  session.timer_seconds * 1000))
       ELSE 1000
  ELSE 0

\* ----------------------------------------------------------- display names
\* Names are sequences of one-character strings.
NameAlex == <<"A", "l", "e", "x">>
NameAlexLower == <<"a", "l", "e", "x">>
NameAlexUpper == <<"A", "L", "E", "X">>

LowerChar(ch) ==
  CASE ch = "A" -> "a"
    [] ch = "L" -> "l"
    [] ch = "E" -> "e"
    [] ch = "X" -> "x"
    [] OTHER -> ch

\* String.prototype.toLowerCase
ToLowerCase(str) == [i \in 1 .. Len(str) |-> LowerChar(str[i])]

RECURSIVE TrimStart(_)
TrimStart(str) ==
  IF str # <<>> /\ Head(str) = " " THEN TrimStart(Tail(str)) ELSE str

RECURSIVE TrimEnd(_)
TrimEnd(str) ==
  IF str # <<>> /\ str[Len(str)] = " " THEN TrimEnd(SubSeq(str, 1, Len(str) - 1)) ELSE str

\* String.prototype.trim
Trim(str) == TrimEnd(TrimStart(str))

DigitChars == <<"0", "1", "2", "3", "4", "5", "6", "7", "8", "9">>

\* the decimal digits of n >= 0, as a template literal writes a number
RECURSIVE NumberToString(_)
NumberToString(n) ==
  IF n < 10 THEN <<DigitChars[n + 1]>>
  ELSE NumberToString(n \div 10) \o <<DigitChars[(n % 10) + 1]>>

\* the while loop of handleJoin: the first counter whose suffixed name is not taken
RECURSIVE NextFreeCounter(_, _, _)
NextFreeCounter(names, lowerName, counter) ==
  IF (lowerName \o NumberToString(counter)) \in names
  THEN NextFreeCounter(names, lowerName, counter + 1)
  ELSE counter

\* a resolution that always appends 2 on a collision
ResolveNameTwo(displayName, existing) ==
  LET finalName == Trim(displayName)
      names == {ToLowerCase(n) : n \in existing}
  IN IF ToLowerCase(finalName) \in names
     THEN finalName \o NumberToString(2)
     ELSE finalName

\* handleJoin: finalName from the typed displayName and the display names read
ResolveName(displayName, existing) ==
  LET finalName == Trim(displayName)
      names == {ToLowerCase(n) : n \in existing}
  IN IF ToLowerCase(finalName) \in names
     THEN finalName \o NumberToString(NextFreeCounter(names, ToLowerCase(finalName), 2))
     ELSE finalName

\* names a player may type into the join form of the live session
RequestedNames == {NameAlex, NameAlexLower, <<" ">> \o NameAlex}

\* select display_name from session_players where is_removed = false
ActiveNames == {players[i].display_name : i \in {j \in 1 .. Len(players) : ~players[j].is_removed}}

\* ---------------------------------------------------------------- the host
HostIdle == h_pc = Null

\* currentQ of the render: questions[session.current_question_index] while playing
HostCurrentQ ==
  /\ h_session.status = "playing"
  /\ h_session.current_question_index \in QuestionIndexes

\* Step 1 of the playing controls: the question is live
HostStepLive ==
  /\ HostCurrentQ
  /\ ~IsNull(h_qs)
  /\ ~Val(h_qs).show_results
  /\ ~Val(h_qs).is_locked

\* UPDATE sessions ... WHERE id = sid
UpdateSession(sid, row) ==
  /\ Room
  /\ sessions' = [sessions EXCEPT ![sid] = row]
  /\ inbox' = Publish(Event("sessions", "UPDATE", row))

\* UPDATE session_question_state ... WHERE id = qid
UpdateQuestionState(qid, row) ==
  /\ Room
  /\ qstates' = [qstates EXCEPT ![qid] = row]
  /\ inbox' = Publish(Event("session_question_state", "UPDATE", row))

\* session_question_state without its unique constraint
QuestionStateUniqueDropped(index) == TRUE

\* unique(session_id, question_index)
QuestionStateUnique(index) == \A i \in 1 .. Len(qstates) : qstates[i].question_index # index

\* an insert that never stores the row
InsertQuestionStateLost(index, startedAt, endsAt) == UNCHANGED <<qstates, inbox>>

\* INSERT INTO session_question_state: rejected on a unique violation
InsertQuestionState(index, startedAt, endsAt) ==
  IF QuestionStateUnique(index)
  THEN LET row == [id |-> Len(qstates) + 1, question_index |-> index, question_id |-> index,
                   started_at |-> Some(startedAt), ends_at |-> Some(endsAt),
                   is_paused |-> FALSE, paused_remaining_ms |-> Null,
                   is_locked |-> FALSE, show_results |-> FALSE,
                   show_leaderboard |-> FALSE]
       IN /\ Room
          /\ qstates' = Append(qstates, row)
          /\ inbox' = Publish(Event("session_question_state", "INSERT", row))
  ELSE UNCHANGED <<qstates, inbox>>

\* a startGame whose sessions update leaves current_question_index alone
startGameStatusOnly ==
  /\ HostIdle
  /\ h_session.status = "lobby"
  /\ h_players # {}
  /\ NumQuestions # 0
  /\ UpdateSession(h_session.id, [sessions[h_session.id] EXCEPT !.status = "playing"])
  /\ h_pc' = Some([index |-> 0, timer |-> h_timerSeconds])
  /\ UNCHANGED <<now, qstates, players, answers, h_session, h_qs, h_players, h_timerSeconds, playerVars, subscribed, otherVars>>

startGame ==
  /\ HostIdle
  /\ h_session.status = "lobby"
  /\ h_players # {}
  /\ NumQuestions # 0
  /\ UpdateSession(h_session.id,
       [sessions[h_session.id] EXCEPT !.status = "playing", !.current_question_index = 0])
  /\ h_pc' = Some([index |-> 0, timer |-> h_timerSeconds])
  /\ UNCHANGED <<now, qstates, players, answers, h_session, h_qs, h_players, h_timerSeconds, playerVars, subscribed, otherVars>>

\* the insert that follows the sessions update in startGame and nextQuestion
HostInsertQuestionState ==
  /\ ~HostIdle
  /\ InsertQuestionState(Val(h_pc).index, now, now + Val(h_pc).timer * 1000)
  /\ h_pc' = Null
  /\ UNCHANGED <<now, sessions, players, answers, h_session, h_qs, h_players, h_timerSeconds, playerVars, subscribed, otherVars>>

\* a pauseResume that writes the page's copy of the row back with the new fields
pauseResumeWholeRow ==
  /\ HostStepLive
  /\ LET qs == Val(h_qs)
     IN IF qs.is_paused
        THEN LET remainingMs == IF IsNull(qs.paused_remaining_ms) THEN 0
                                ELSE Val(qs.paused_remaining_ms)
             IN UpdateQuestionState(qs.id,
                  [qs EXCEPT
                     !.is_paused = FALSE,
                     !.paused_remaining_ms = Null,
                     !.started_at = Some(now - (h_timerSeconds * 1000 - remainingMs)),
                     !.ends_at = Some(now + remainingMs)])
        ELSE LET endsAt == IF IsNull(qs.ends_at) THEN 0 ELSE Val(qs.ends_at)
                 remaining == Max(0, endsAt - now)
             IN UpdateQuestionState(qs.id,
                  [qs EXCEPT
                     !.is_paused = TRUE,
                     !.paused_remaining_ms = Some(remaining)])
  /\ UNCHANGED <<now, sessions, players, answers, hostVars, playerVars, subscribed, otherVars>>

\* a pauseResume whose resume moves the scheduled end and leaves started_at alone
pauseResumeKeepsStart ==
  /\ HostStepLive
  /\ LET qs == Val(h_qs)
     IN IF qs.is_paused
        THEN LET remainingMs == IF IsNull(qs.paused_remaining_ms) THEN 0
                                ELSE Val(qs.paused_remaining_ms)
             IN UpdateQuestionState(qs.id,
                  [qstates[qs.id] EXCEPT
                     !.is_paused = FALSE,
                     !.paused_remaining_ms = Null,
                     !.ends_at = Some(now + remainingMs)])
        ELSE LET endsAt == IF IsNull(qs.ends_at) THEN 0 ELSE Val(qs.ends_at)
                 remaining == Max(0, endsAt - now)
             IN UpdateQuestionState(qs.id,
                  [qstates[qs.id] EXCEPT
                     !.is_paused = TRUE,
                     !.paused_remaining_ms = Some(remaining)])
  /\ UNCHANGED <<now, sessions, players, answers, hostVars, playerVars, subscribed, otherVars>>

\* a pauseResume whose pause also clears the scheduled end
pauseResumeClearsEnd ==
  /\ HostStepLive
  /\ LET qs == Val(h_qs)
     IN IF qs.is_paused
        THEN LET remainingMs == IF IsNull(qs.paused_remaining_ms) THEN 0
                                ELSE Val(qs.paused_remaining_ms)
             IN UpdateQuestionState(qs.id,
                  [qstates[qs.id] EXCEPT
                     !.is_paused = FALSE,
                     !.paused_remaining_ms = Null,
                     !.started_at = Some(now - (h_timerSeconds * 1000 - remainingMs)),
                     !.ends_at = Some(now + remainingMs)])
        ELSE LET endsAt == IF IsNull(qs.ends_at) THEN 0 ELSE Val(qs.ends_at)
                 remaining == Max(0, endsAt - now)
             IN UpdateQuestionState(qs.id,
                  [qstates[qs.id] EXCEPT
                     !.is_paused = TRUE,
                     !.paused_remaining_ms = Some(remaining),
                     !.ends_at = Null])
  /\ UNCHANGED <<now, sessions, players, answers, hostVars, playerVars, subscribed, otherVars>>

pauseResume ==
  /\ HostStepLive
  /\ LET qs == Val(h_qs)
     IN IF qs.is_paused
        THEN LET remainingMs == IF IsNull(qs.paused_remaining_ms) THEN 0
                                ELSE Val(qs.paused_remaining_ms)
             IN UpdateQuestionState(qs.id,
                  [qstates[qs.id] EXCEPT
                     !.is_paused = FALSE,
                     !.paused_remaining_ms = Null,
                     !.started_at = Some(now - (h_timerSeconds * 1000 - remainingMs)),
                     !.ends_at = Some(now + remainingMs)])
        ELSE LET endsAt == IF IsNull(qs.ends_at) THEN 0 ELSE Val(qs.ends_at)
                 remaining == Max(0, endsAt - now)
             IN UpdateQuestionState(qs.id,
                  [qstates[qs.id] EXCEPT
                     !.is_paused = TRUE,
                     !.paused_remaining_ms = Some(remaining)])
  /\ UNCHANGED <<now, sessions, players, answers, hostVars, playerVars, subscribed, otherVars>>

\* an endQuestionEarly that writes is_locked alone
endQuestionEarlyLockOnly ==
  /\ HostStepLive
  /\ UpdateQuestionState(Val(h_qs).id, [qstates[Val(h_qs).id] EXCEPT !.is_locked = TRUE])
  /\ UNCHANGED <<now, sessions, players, answers, hostVars, playerVars, subscribed, otherVars>>

endQuestionEarly ==
  /\ HostStepLive
  /\ UpdateQuestionState(Val(h_qs).id,
       [qstates[Val(h_qs).id] EXCEPT !.is_locked = TRUE, !.show_results = TRUE])
  /\ UNCHANGED <<now, sessions, players, answers, hostVars, playerVars, subscribed, otherVars>>

\* a Show Leaderboard button that is enabled whatever the question's phase
showLeaderboardAnyPhase ==
  /\ HostCurrentQ
  /\ ~IsNull(h_qs)
  /\ ~Val(h_qs).show_leaderboard
  /\ UpdateQuestionState(Val(h_qs).id,
       [qstates[Val(h_qs).id] EXCEPT !.show_leaderboard = TRUE])
  /\ UNCHANGED <<now, sessions, players, answers, hostVars, playerVars, subscribed, otherVars>>

showLeaderboard ==
  /\ HostCurrentQ
  /\ ~HostStepLive
  /\ ~IsNull(h_qs)
  /\ Val(h_qs).show_results
  /\ ~Val(h_qs).show_leaderboard
  /\ UpdateQuestionState(Val(h_qs).id,
       [qstates[Val(h_qs).id] EXCEPT !.show_leaderboard = TRUE])
  /\ UNCHANGED <<now, sessions, players, answers, hostVars, playerVars, subscribed, otherVars>>

\* a nextQuestion that never finishes the game
nextQuestionNoEnd ==
  /\ HostIdle
  /\ HostCurrentQ
  /\ ~HostStepLive
  /\ ~IsNull(h_qs)
  /\ Val(h_qs).show_leaderboard
  /\ NumQuestions # 0
  /\ LET nextIndex == h_session.current_question_index + 1
     IN /\ UpdateSession(h_session.id,
             [sessions[h_session.id] EXCEPT !.current_question_index = nextIndex])
        /\ h_pc' = Some([index |-> nextIndex, timer |-> h_timerSeconds])
  /\ UNCHANGED <<now, qstates, players, answers, h_session, h_qs, h_players, h_timerSeconds, playerVars, subscribed, otherVars>>

nextQuestion ==
  /\ HostIdle
  /\ HostCurrentQ
  /\ ~HostStepLive
  /\ ~IsNull(h_qs)
  /\ Val(h_qs).show_leaderboard
  /\ NumQuestions # 0
  /\ LET nextIndex == h_session.current_question_index + 1
     IN IF nextIndex >= NumQuestions
        THEN /\ UpdateSession(h_session.id,
                  [sessions[h_session.id] EXCEPT !.status = "finished",
                                                 !.ended_at = Some(now)])
             /\ h_pc' = Null
        ELSE /\ UpdateSession(h_session.id,
                  [sessions[h_session.id] EXCEPT !.current_question_index = nextIndex])
             /\ h_pc' = Some([index |-> nextIndex, timer |-> h_timerSeconds])
  /\ UNCHANGED <<now, qstates, players, answers, h_session, h_qs, h_players, h_timerSeconds, playerVars, subscribed, otherVars>>

endGame ==
  /\ h_session.status = "playing"
  /\ UpdateSession(h_session.id,
       [sessions[h_session.id] EXCEPT !.status = "finished", !.ended_at = Some(now)])
  /\ UNCHANGED <<now, qstates, players, answers, hostVars, playerVars, subscribed, otherVars>>

kickPlayer(pid) ==
  /\ \/ h_session.status = "lobby"
     \/ HostCurrentQ
  /\ pid \in h_players
  /\ UpdatePlayer(pid, [players[pid] EXCEPT !.is_removed = TRUE])
  /\ UNCHANGED <<now, sessions, qstates, answers, hostVars, playerVars, subscribed, otherVars>>

\* the page is opened or reloaded: load() reads the session, the timer setting of
\* its game, the players that are not removed and the question state of the current
\* index; the channel of the page
\* that was open is left, the new page's channel is not joined yet
HostLoad ==
  /\ HostIdle
  /\ h_session' = sessions[LiveSession]
  /\ h_players' = {i \in 1 .. Len(players) : ~players[i].is_removed}
  /\ h_qs' = LET index == sessions[LiveSession].current_question_index
                 rows == {i \in 1 .. Len(qstates) : qstates[i].question_index = index}
             IN IF index >= 0 /\ rows # {}
                THEN Some(qstates[CHOOSE i \in rows : TRUE])
                ELSE Null
  /\ h_timerSeconds' = game_timer
  /\ subscribed' = subscribed \ {Host}
  /\ inbox' = [inbox EXCEPT ![Host] = <<>>]
  /\ UNCHANGED <<now, storeVars, h_pc, playerVars, otherVars>>

\* the effect that follows setSession: subscribeToSession joins the channel
HostSubscribe ==
  /\ Host \notin subscribed
  /\ subscribed' = subscribed \cup {Host}
  /\ UNCHANGED <<now, storeVars, inbox, hostVars, playerVars, otherVars>>

\* ------------------------------------------------------ the host's feed
HostOnSessionChange ==
  /\ inbox[Host] # <<>>
  /\ Head(inbox[Host]).table = "sessions"
  /\ h_session' = Head(inbox[Host]).new
  /\ inbox' = [inbox EXCEPT ![Host] = Tail(@)]
  /\ UNCHANGED <<now, storeVars, h_qs, h_players, h_timerSeconds, h_pc, playerVars, subscribed, otherVars>>

HostOnQuestionStateChange ==
  /\ inbox[Host] # <<>>
  /\ Head(inbox[Host]).table = "session_question_state"
  /\ h_qs' = Some(Head(inbox[Host]).new)
  /\ inbox' = [inbox EXCEPT ![Host] = Tail(@)]
  /\ UNCHANGED <<now, storeVars, h_session, h_players, h_timerSeconds, h_pc, playerVars, subscribed, otherVars>>

HostOnPlayerChange ==
  /\ inbox[Host] # <<>>
  /\ Head(inbox[Host]).table = "session_players"
  /\ LET ev == Head(inbox[Host])
         p == ev.new
     IN h_players' =
          IF ev.eventType = "INSERT" THEN h_players \cup {p.id}
          ELSE IF ev.eventType = "UPDATE" /\ p.is_removed THEN h_players \ {p.id}
          ELSE h_players
  /\ inbox' = [inbox EXCEPT ![Host] = Tail(@)]
  /\ UNCHANGED <<now, storeVars, h_session, h_qs, h_timerSeconds, h_pc, playerVars, subscribed, otherVars>>

\* --------------------------------------------------------------- a player
\* Date.now() on a player's device
PlayerClocks == {now + k * TickMs : k \in (0 - MaxSkewTicks) .. MaxSkewTicks}

\* handleJoin up to the insert: read the names of the session, resolve the name
JoinRead(c, displayName) ==
  /\ p_phase[c] = "joining"
  /\ IsNull(p_join[c])
  /\ Trim(displayName) # <<>>
  /\ p_join' = [p_join EXCEPT ![c] = Some(ResolveName(displayName, ActiveNames))]
  /\ p_error' = [p_error EXCEPT ![c] = FALSE]
  /\ UNCHANGED <<now, storeVars, feedVars, hostVars, p_phase, p_session, p_player, p_qs, p_sel, p_result, p_dirty, p_out, pageVars, otherVars>>

\* session_players without the status check of its insert policy
JoinAllowedAlways(sid) == TRUE

\* policy "Anyone can join session": the session is in lobby
JoinAllowed(sid) == sessions[sid].status = "lobby"

\* handleJoin from the insert on
JoinInsert(c) ==
  /\ ~IsNull(p_join[c])
  /\ p_join' = [p_join EXCEPT ![c] = Null]
  /\ IF JoinAllowed(p_session[c].id)
     THEN LET row == [id |-> Len(players) + 1, display_name |-> Val(p_join[c]),
                      score |-> 0, is_removed |-> FALSE]
          IN /\ InsertPlayer(row)
             /\ p_player' = [p_player EXCEPT ![c] = Some(row.id)]
             /\ p_stored' = [p_stored EXCEPT ![c] = Some(row.id)]
             /\ p_score' = [p_score EXCEPT ![c] = row.score]
             /\ p_phase' = [p_phase EXCEPT ![c] = "lobby"]
             /\ UNCHANGED p_error
     ELSE /\ p_error' = [p_error EXCEPT ![c] = TRUE]
          /\ UNCHANGED <<players, inbox, p_player, p_stored, p_score, p_phase>>
  /\ UNCHANGED <<now, sessions, qstates, answers, hostVars, p_session, p_qs, p_sel, p_result, p_dirty, p_out, p_timeLeft, p_players, subscribed, otherVars>>

\* handleJoin from the insert on, with the effect its setPlayer triggers: the
\* subscribe effect depends on player?.id, so its cleanup removes the page's channel
\* and a new channel is created, which is joined some time later (PlayerSubscribe);
\* what the old channel had not delivered is lost.  JoinInsert is the case of the
\* new channel being joined before the next write to the session's rows.
JoinInsertResubscribing(c) ==
  /\ ~IsNull(p_join[c])
  /\ p_join' = [p_join EXCEPT ![c] = Null]
  /\ IF JoinAllowed(p_session[c].id)
     THEN LET row == [id |-> Len(players) + 1, display_name |-> Val(p_join[c]),
                      score |-> 0, is_removed |-> FALSE]
          IN /\ Room
             /\ players' = Append(players, row)
             /\ inbox' = [Publish(Event("session_players", "INSERT", row)) EXCEPT ![c] = <<>>]
             /\ subscribed' = subscribed \ {c}
             /\ p_player' = [p_player EXCEPT ![c] = Some(row.id)]
             /\ p_stored' = [p_stored EXCEPT ![c] = Some(row.id)]
             /\ p_score' = [p_score EXCEPT ![c] = row.score]
             /\ p_phase' = [p_phase EXCEPT ![c] = "lobby"]
             /\ UNCHANGED p_error
     ELSE /\ p_error' = [p_error EXCEPT ![c] = TRUE]
          /\ UNCHANGED <<players, inbox, subscribed, p_player, p_stored, p_score, p_phase>>
  /\ UNCHANGED <<now, sessions, qstates, answers, hostVars, p_session, p_qs, p_sel, p_result, p_dirty, p_out, p_timeLeft, p_players, otherVars>>

\* the answer buttons are rendered and enabled, and handleAnswer does not return early
CanAnswer(c) ==
  /\ p_phase[c] \in {"question", "answered"}
  /\ ~(p_session[c].status = "lobby" /\ ~IsNull(p_player[c]))
  /\ ~IsNull(p_qs[c])
  /\ ~(p_phase[c] = "answered" /\ ~IsNull(p_result[c]))
  /\ ~Val(p_qs[c]).is_locked
  /\ ~Val(p_qs[c]).is_paused
  /\ IsNull(p_sel[c])
  /\ ~IsNull(p_player[c])

\* handleAnswer up to the insert
AnswerEffects(c, choiceId, clock) ==
  LET qs == Val(p_qs[c])
      startedAt == IF IsNull(qs.started_at) THEN clock ELSE Val(qs.started_at)
      timeMs == clock - startedAt
      isCorrect == choiceId = 1
      points == AnswerPoints(isCorrect, timeMs, p_session[c])
  IN /\ p_sel' = [p_sel EXCEPT ![c] = Some(choiceId)]
     /\ p_phase' = [p_phase EXCEPT ![c] = "answered"]
     /\ p_result' = [p_result EXCEPT ![c] = Some([correct |-> isCorrect, points |-> points])]
     /\ p_out' = [p_out EXCEPT ![c] = Append(@,
                    [session_id |-> p_session[c].id, player_id |-> Val(p_player[c]),
                     question_id |-> qs.question_id, choice_id |-> choiceId,
                     is_correct |-> isCorrect, time_ms |-> timeMs,
                     points_awarded |-> points])]
     /\ p_dirty' = [p_dirty EXCEPT ![c] = TRUE]

handleAnswer(c, choiceId, clock) ==
  /\ ~p_dirty[c]
  /\ CanAnswer(c)
  /\ Len(p_out[c]) < MaxOutbox
  /\ AnswerEffects(c, choiceId, clock)
  /\ UNCHANGED <<now, storeVars, feedVars, hostVars, p_session, p_player, p_qs, p_join, p_error, pageVars, otherVars>>

\* a second tap before the page has re-rendered: the same closure runs again
handleAnswerAgain(c, choiceId, clock) ==
  /\ p_dirty[c]
  /\ Len(p_out[c]) < MaxOutbox
  /\ AnswerEffects(c, choiceId, clock)
  /\ UNCHANGED <<now, storeVars, feedVars, hostVars, p_session, p_player, p_qs, p_join, p_error, pageVars, otherVars>>

Render(c) ==
  /\ p_dirty[c]
  /\ p_dirty' = [p_dirty EXCEPT ![c] = FALSE]
  /\ UNCHANGED <<now, storeVars, feedVars, hostVars, p_phase, p_session, p_player, p_qs, p_sel, p_result, p_join, p_out, p_error, pageVars, otherVars>>

\* the store executes one of the client's answer inserts
AnswerInsert(c, i) ==
  /\ i \in 1 .. Len(p_out[c])
  /\ InsertAnswer(p_out[c][i])
  /\ p_out' = [p_out EXCEPT ![c] = SubSeq(@, 1, i - 1) \o SubSeq(@, i + 1, Len(@))]
  /\ UNCHANGED <<now, sessions, qstates, subscribed, hostVars, p_phase, p_session, p_player, p_qs, p_sel, p_result, p_dirty, p_join, p_error, pageVars, otherVars>>

\* ---------------------------------------------------- the player's feed
PlayerOnSessionChange(c) ==
  /\ inbox[c] # <<>>
  /\ Head(inbox[c]).table = "sessions"
  /\ LET s == Head(inbox[c]).new
     IN /\ p_session' = [p_session EXCEPT ![c] = s]
        /\ p_phase' = [p_phase EXCEPT ![c] = IF s.status = "finished" THEN "finished" ELSE @]
  /\ inbox' = [inbox EXCEPT ![c] = Tail(@)]
  /\ p_dirty' = [p_dirty EXCEPT ![c] = FALSE]
  /\ UNCHANGED <<now, storeVars, hostVars, p_player, p_qs, p_sel, p_result, p_join, p_out, p_error, pageVars, subscribed, otherVars>>

PlayerOnQuestionStateChange(c) ==
  /\ inbox[c] # <<>>
  /\ Head(inbox[c]).table = "session_question_state"
  /\ LET ev == Head(inbox[c])
         qs == ev.new
     IN /\ p_qs' = [p_qs EXCEPT ![c] = Some(qs)]
        /\ IF ev.eventType = "INSERT"
           THEN /\ p_sel' = [p_sel EXCEPT ![c] = Null]
                /\ p_result' = [p_result EXCEPT ![c] = Null]
                /\ p_phase' = [p_phase EXCEPT ![c] = "question"]
           ELSE /\ UNCHANGED <<p_sel, p_result>>
                /\ p_phase' = [p_phase EXCEPT ![c] =
                                 IF qs.show_leaderboard THEN "leaderboard"
                                 ELSE IF qs.show_results THEN "results"
                                 ELSE @]
  /\ inbox' = [inbox EXCEPT ![c] = Tail(@)]
  /\ p_dirty' = [p_dirty EXCEPT ![c] = FALSE]
  /\ UNCHANGED <<now, storeVars, hostVars, p_session, p_player, p_join, p_out, p_error, pageVars, subscribed, otherVars>>

PlayerOnPlayerChange(c) ==
  /\ inbox[c] # <<>>
  /\ Head(inbox[c]).table = "session_players"
  /\ LET ev == Head(inbox[c])
         p == ev.new
     IN IF ev.eventType = "INSERT"
        THEN /\ p_players' = [p_players EXCEPT ![c] = @ \cup {p.id}]
             /\ UNCHANGED p_phase
        ELSE IF /\ ~IsNull(p_player[c])
                /\ p.id = Val(p_player[c])
                /\ p.is_removed
             THEN /\ p_phase' = [p_phase EXCEPT ![c] = "removed"]
                  /\ UNCHANGED p_players
             ELSE /\ p_players' = [p_players EXCEPT ![c] =
                                     IF p.is_removed THEN @ \ {p.id} ELSE @]
                  /\ UNCHANGED p_phase
  /\ inbox' = [inbox EXCEPT ![c] = Tail(@)]
  /\ p_dirty' = [p_dirty EXCEPT ![c] = FALSE]
  /\ UNCHANGED <<now, storeVars, hostVars, p_session, p_player, p_qs, p_sel, p_result, p_join, p_out, p_error, p_timeLeft, p_stored, p_score, subscribed, otherVars>>

\* Math.ceil of the rational n / d (d > 0)
CeilDiv(n, d) == 0 - ((0 - n) \div d)

\* the value the timer effects pass to setTimeLeft
Countdown(qs, clock) == Max(0, CeilDiv(Val(qs.ends_at) - clock, 1000))

\* the timer effect is installed: the page's row is neither paused nor locked
CountdownRuns(qs) ==
  /\ ~IsNull(qs)
  /\ ~Val(qs).is_paused
  /\ ~Val(qs).is_locked
  /\ ~IsNull(Val(qs).ends_at)

\* a countdown that treats the question as locked once it shows zero
PlayerCountdownLocks(c, clock) ==
  /\ CountdownRuns(p_qs[c])
  /\ p_timeLeft' = [p_timeLeft EXCEPT ![c] = Countdown(Val(p_qs[c]), clock)]
  /\ p_qs' = [p_qs EXCEPT ![c] =
                IF Countdown(Val(p_qs[c]), clock) = 0
                THEN Some([Val(@) EXCEPT !.is_locked = TRUE]) ELSE @]
  /\ UNCHANGED <<now, storeVars, feedVars, hostVars, p_phase, p_session, p_player, p_sel, p_result, p_dirty, p_join, p_out, p_error, p_players, p_stored, p_score, otherVars>>

\* one run of the interval of the player page's timer effect
PlayerCountdown(c, clock) ==
  /\ CountdownRuns(p_qs[c])
  /\ p_timeLeft' = [p_timeLeft EXCEPT ![c] = Countdown(Val(p_qs[c]), clock)]
  /\ UNCHANGED <<now, storeVars, feedVars, hostVars, p_phase, p_session, p_player, p_qs, p_sel, p_result, p_dirty, p_join, p_out, p_error, p_players, p_stored, p_score, otherVars>>

\* the play page is opened again on the device: findSession looks the session up
\* by its code among the sessions that are not finished, reads the players and the
\* player stored on the device; the channel of the page that was open is left
PlayerReload(c) ==
  /\ IsNull(p_join[c])
  /\ LET data == sessions[LiveSession]
         found == data.status # "finished"
         stored == p_stored[c]
         existing == IF IsNull(stored) THEN Null ELSE Some(players[Val(stored)])
         joined == found /\ ~IsNull(existing) /\ ~Val(existing).is_removed
     IN /\ p_session' = [p_session EXCEPT ![c] = IF found THEN data ELSE @]
        /\ p_error' = [p_error EXCEPT ![c] = ~found]
        /\ p_players' = [p_players EXCEPT ![c] =
                           IF found THEN {i \in 1 .. Len(players) : ~players[i].is_removed}
                           ELSE {}]
        /\ p_player' = [p_player EXCEPT ![c] = IF joined THEN stored ELSE Null]
        /\ p_score' = [p_score EXCEPT ![c] = IF joined THEN Val(existing).score ELSE 0]
        /\ p_phase' = [p_phase EXCEPT ![c] =
                         IF ~found THEN "error"
                         ELSE IF joined
                              THEN (IF data.status = "lobby" THEN "lobby" ELSE "question")
                         ELSE IF ~IsNull(existing) THEN "removed"
                         ELSE "joining"]
  /\ p_qs' = [p_qs EXCEPT ![c] = Null]
  /\ p_sel' = [p_sel EXCEPT ![c] = Null]
  /\ p_result' = [p_result EXCEPT ![c] = Null]
  /\ p_dirty' = [p_dirty EXCEPT ![c] = FALSE]
  /\ p_timeLeft' = [p_timeLeft EXCEPT ![c] = 0]
  /\ subscribed' = subscribed \ {c}
  /\ inbox' = [inbox EXCEPT ![c] = <<>>]
  /\ UNCHANGED <<now, storeVars, hostVars, p_join, p_out, p_stored, otherVars>>

\* the effect that follows setSession: subscribeToSession joins the channel
PlayerSubscribe(c) ==
  /\ c \notin subscribed
  /\ p_phase[c] # "error"
  /\ subscribed' = subscribed \cup {c}
  /\ UNCHANGED <<now, storeVars, inbox, hostVars, playerVars, otherVars>>

\* ------------------------------------------------------------ the display
\* GameScreenPage is opened: load() reads the session by its code (a finished one
\* if no other has the code), and for an unfinished session the players that are
\* not removed and the question state of the current index
DisplayLoad ==
  /\ LET data == sessions[LiveSession]
         index == data.current_question_index
         rows == {i \in 1 .. Len(qstates) : qstates[i].question_index = index}
     IN /\ d_session' = Some(data)
        /\ d_players' = IF data.status # "finished"
                        THEN {i \in 1 .. Len(players) : ~players[i].is_removed}
                        ELSE {}
        /\ d_qs' = IF data.status # "finished" /\ index >= 0 /\ rows # {}
                   THEN Some(qstates[CHOOSE i \in rows : TRUE])
                   ELSE Null
  /\ d_timeLeft' = 0
  /\ d_showLeaderboard' = FALSE
  /\ subscribed' = subscribed \ {Display}
  /\ inbox' = [inbox EXCEPT ![Display] = <<>>]
  /\ UNCHANGED <<now, storeVars, hostVars, playerVars, creator, scoring, naming, game_timer>>

DisplaySubscribe ==
  /\ ~IsNull(d_session)
  /\ Display \notin subscribed
  /\ subscribed' = subscribed \cup {Display}
  /\ UNCHANGED <<now, storeVars, inbox, hostVars, playerVars, otherVars>>

DisplayOnSessionChange ==
  /\ inbox[Display] # <<>>
  /\ Head(inbox[Display]).table = "sessions"
  /\ d_session' = Some(Head(inbox[Display]).new)
  /\ inbox' = [inbox EXCEPT ![Display] = Tail(@)]
  /\ UNCHANGED <<now, storeVars, subscribed, hostVars, playerVars, creator, scoring, naming, game_timer, d_qs, d_players, d_timeLeft, d_showLeaderboard>>

DisplayOnPlayerChange ==
  /\ inbox[Display] # <<>>
  /\ Head(inbox[Display]).table = "session_players"
  /\ LET ev == Head(inbox[Display])
         p == ev.new
     IN d_players' =
          IF ev.eventType = "INSERT" THEN d_players \cup {p.id}
          ELSE IF ev.eventType = "UPDATE" /\ p.is_removed THEN d_players \ {p.id}
          ELSE d_players
  /\ inbox' = [inbox EXCEPT ![Display] = Tail(@)]
  /\ UNCHANGED <<now, storeVars, subscribed, hostVars, playerVars, creator, scoring, naming, game_timer, d_session, d_qs, d_timeLeft, d_showLeaderboard>>

DisplayOnQuestionStateChange ==
  /\ inbox[Display] # <<>>
  /\ Head(inbox[Display]).table = "session_question_state"
  /\ d_qs' = Some(Head(inbox[Display]).new)
  /\ d_showLeaderboard' = Head(inbox[Display]).new.show_leaderboard
  /\ inbox' = [inbox EXCEPT ![Display] = Tail(@)]
  /\ UNCHANGED <<now, storeVars, subscribed, hostVars, playerVars, creator, scoring, naming, game_timer, d_session, d_players, d_timeLeft>>

\* one run of the interval of the display's timer effect
DisplayCountdown(clock) ==
  /\ CountdownRuns(d_qs)
  /\ d_timeLeft' = Countdown(Val(d_qs), clock)
  /\ UNCHANGED <<now, storeVars, feedVars, hostVars, playerVars, creator, scoring, naming, game_timer, d_session, d_qs, d_players, d_showLeaderboard>>

\* ---------------------------------------------------------- the game editor
\* values the timer slider of the settings page is moved to
EditedTimers == {15, 30}

\* the autosave of the game's settings page: UPDATE games SET timer_seconds = ...
SaveGameSettings(timerSeconds) ==
  /\ timerSeconds # game_timer
  /\ game_timer' = timerSeconds
  /\ UNCHANGED <<now, storeVars, feedVars, hostVars, playerVars, creator, scoring, naming, displayVars>>

\* ------------------------------------------------------------------ clock
Tick ==
  /\ now < MaxTime * TickMs
  /\ now' = now + TickMs
  /\ UNCHANGED <<storeVars, feedVars, hostVars, playerVars, otherVars>>

\* ------------------------------------------------------- session creation
CreatorIdle == [pc |-> "idle", code |-> 0, attempts |-> 0, error |-> FALSE]

\* select id from sessions where code = :code and status != 'finished'
ExistingActive(code) ==
  \E i \in 1 .. Len(sessions) : sessions[i].code = code /\ sessions[i].status # "finished"

\* sessions without the unique index on active codes
ActiveCodeUniqueDropped(code) == TRUE

\* unique index sessions_active_code_idx on (code) where status != 'finished'
ActiveCodeUnique(code) ==
  \A i \in 1 .. Len(sessions) : ~(sessions[i].code = code /\ sessions[i].status # "finished")

\* handleStartSession: let code = generateGameCode(); let attempts = 0
CreateBegin(h, code) ==
  /\ creator[h].pc = "idle"
  /\ Len(sessions) < MaxSessions
  /\ creator' = [creator EXCEPT ![h] = [pc |-> "check", code |-> code,
                                        attempts |-> 0, error |-> FALSE]]
  /\ UNCHANGED <<now, storeVars, feedVars, hostVars, playerVars, scoring, naming, displayVars, game_timer>>

\* a loop that leaves on its first pass without looking the candidate up
CreateCheckNoLookup(h, nextCode) ==
  /\ creator[h].pc = "check"
  /\ creator' = [creator EXCEPT ![h].pc = "insert"]
  /\ UNCHANGED <<now, storeVars, feedVars, hostVars, playerVars, scoring, naming, displayVars, game_timer>>

\* handleStartSession: one pass of while (attempts < 5), with the next candidate
CreateCheck(h, nextCode) ==
  /\ creator[h].pc = "check"
  /\ IF creator[h].attempts < MaxCodeAttempts
     THEN IF ~ExistingActive(creator[h].code)
          THEN creator' = [creator EXCEPT ![h].pc = "insert"]
          ELSE creator' = [creator EXCEPT ![h].code = nextCode,
                                          ![h].attempts = @ + 1]
     ELSE creator' = [creator EXCEPT ![h].pc = "insert"]
  /\ UNCHANGED <<now, storeVars, feedVars, hostVars, playerVars, scoring, naming, displayVars, game_timer>>

\* handleStartSession: the insert; a unique violation is thrown and shown as the error
CreateInsert(h) ==
  /\ creator[h].pc = "insert"
  /\ IF ActiveCodeUnique(creator[h].code)
     THEN /\ sessions' = Append(sessions,
                NewSessionRow(Len(sessions) + 1, creator[h].code, DefaultTimerSeconds, TRUE))
          /\ creator' = [creator EXCEPT ![h].pc = "idle"]
     ELSE /\ creator' = [creator EXCEPT ![h].pc = "idle", ![h].error = TRUE]
          /\ UNCHANGED sessions
  /\ UNCHANGED <<now, qstates, players, answers, feedVars, hostVars, playerVars,
                 scoring, naming, displayVars, game_timer>>

\* the sessions write of startGame, by the host of session sid
SessionStarts(sid) ==
  /\ sessions[sid].status = "lobby"
  /\ UpdateSession(sid, [sessions[sid] EXCEPT !.status = "playing",
                                              !.current_question_index = 0])
  /\ UNCHANGED <<now, qstates, players, answers, subscribed, hostVars, playerVars, otherVars>>

\* the sessions write of endGame, by the host of session sid
SessionEnds(sid) ==
  /\ sessions[sid].status = "playing"
  /\ UpdateSession(sid, [sessions[sid] EXCEPT !.status = "finished",
                                              !.ended_at = Some(now)])
  /\ UNCHANGED <<now, qstates, players, answers, subscribed, hostVars, playerVars, otherVars>>

\* startGame on a second remote page of the host of session sid, which loaded the
\* lobby with a player in it and whose copy has not changed since; the row of
\* question 0 exists, so the insert that follows the sessions update is rejected
SessionRestarts(sid) ==
  /\ Len(players) >= 1
  /\ NumQuestions # 0
  /\ ~QuestionStateUnique(0)
  /\ UpdateSession(sid, [sessions[sid] EXCEPT !.status = "playing",
                                              !.current_question_index = 0])
  /\ UNCHANGED <<now, qstates, players, answers, subscribed, hostVars, playerVars, otherVars>>

\* ------------------------------------------- applications of the functions
TimerOptions == {10, 15, 20, 25, 30, 35, 40, 45, 50, 55, 60}
ElapsedSamples ==
  {-15000, -1, 0, 1, 4, 30, 9999, 10000, 14999, 15000, 20000, 29970, 29999, 30000,
   30001, 45000, 60000, 90000}

ApplyPoints ==
  /\ ~IsNull(scoring)
  /\ ~Val(scoring).applied
  /\ LET in == Val(scoring)
     IN scoring' = Some([in EXCEPT
          !.applied = TRUE,
          !.lib = calculatePoints(in.isCorrect, in.timeMs, in.timerSeconds, in.speedBonus),
          !.inline = AnswerPoints(in.isCorrect, in.timeMs,
                       [timer_seconds |-> in.timerSeconds, speed_bonus |-> in.speedBonus])])
  /\ UNCHANGED <<now, storeVars, feedVars, hostVars, playerVars, creator, naming, displayVars, game_timer>>

\* names typed into the join form, and rosters the join may read
TypedNames ==
  {NameAlex, NameAlexLower, NameAlexUpper, <<" ">> \o NameAlex \o <<" ">>,
   NameAlex \o <<"2">>, <<"A", "l">>}
RosterPool ==
  {NameAlex, NameAlexLower \o <<"2">>, NameAlexUpper \o <<"3">>, NameAlex \o <<"2", "2">>,
   <<"A", "l">>, NameAlex \o <<"4">>}
RosterChain == {NameAlex} \cup {NameAlex \o NumberToString(k) : k \in 2 .. 9}
Rosters == (SUBSET RosterPool) \cup {RosterChain}

ApplyResolveName ==
  /\ ~IsNull(naming)
  /\ ~Val(naming).applied
  /\ LET in == Val(naming)
     IN naming' = Some([in EXCEPT !.applied = TRUE,
                                  !.finalName = ResolveName(in.displayName, in.existing)])
  /\ UNCHANGED <<now, storeVars, feedVars, hostVars, playerVars, creator, scoring, displayVars, game_timer>>

\* ------------------------------------------------------------------- spec
\* The host remote has loaded the session handleStartSession created; the clients in
\* `subs` have opened the play page and found it (findSession).  No guard of any
\* operation reads the clock, so the specifications without Tick lose no
\* interleaving of the others: they only keep every timestamp at 0.
InitPages(subs) ==
  /\ now = 0
  /\ qstates = <<>>
  /\ players = <<>>
  /\ answers = <<>>
  /\ subscribed = subs
  /\ inbox = [c \in Subscribers |-> <<>>]
  /\ h_session = NewSessionRow(LiveSession, 1, DefaultTimerSeconds, TRUE)
  /\ h_qs = Null
  /\ h_players = {}
  /\ h_timerSeconds = DefaultTimerSeconds
  /\ h_pc = Null
  /\ p_phase = [c \in Clients |-> "joining"]
  /\ p_session = [c \in Clients |-> NewSessionRow(LiveSession, 1, DefaultTimerSeconds, TRUE)]
  /\ p_player = [c \in Clients |-> Null]
  /\ p_qs = [c \in Clients |-> Null]
  /\ p_sel = [c \in Clients |-> Null]
  /\ p_result = [c \in Clients |-> Null]
  /\ p_dirty = [c \in Clients |-> FALSE]
  /\ p_join = [c \in Clients |-> Null]
  /\ p_out = [c \in Clients |-> <<>>]
  /\ p_error = [c \in Clients |-> FALSE]
  /\ p_timeLeft = [c \in Clients |-> 0]
  /\ p_players = [c \in Clients |-> {}]
  /\ p_stored = [c \in Clients |-> Null]
  /\ p_score = [c \in Clients |-> 0]

\* ... and no display page is open
InitClients(subs) ==
  /\ InitPages(subs)
  /\ d_session = Null
  /\ d_qs = Null
  /\ d_players = {}
  /\ d_timeLeft = 0
  /\ d_showLeaderboard = FALSE

InitWith(subs) ==
  /\ sessions = <<NewSessionRow(LiveSession, 1, DefaultTimerSeconds, TRUE)>>
  /\ InitClients(subs)
  /\ creator = [h \in Creators |-> CreatorIdle]
  /\ game_timer = DefaultTimerSeconds
  /\ scoring = Null
  /\ naming = Null

HostFeed ==
  \/ HostOnSessionChange
  \/ HostOnQuestionStateChange
  \/ HostOnPlayerChange

PlayerFeed(c) ==
  \/ PlayerOnSessionChange(c)
  \/ PlayerOnQuestionStateChange(c)
  \/ PlayerOnPlayerChange(c)

DisplayFeed ==
  \/ DisplayOnSessionChange
  \/ DisplayOnPlayerChange
  \/ DisplayOnQuestionStateChange

\* Spec: the session lifecycle and the question phases, one player device
Init == InitWith({Host, 1})

Next ==
  \/ startGame
  \/ HostInsertQuestionState
  \/ pauseResume
  \/ endQuestionEarly
  \/ showLeaderboard
  \/ nextQuestion
  \/ endGame
  \/ \E pid \in 1 .. Len(players) : kickPlayer(pid)
  \/ HostFeed
  \/ JoinRead(1, NameAlex)
  \/ JoinInsert(1)
  \/ \E ch \in Choices : handleAnswer(1, ch, now)
  \/ \E ch \in Choices : handleAnswerAgain(1, ch, now)
  \/ Render(1)
  \/ \E i \in 1 .. MaxOutbox : AnswerInsert(1, i)
  \/ PlayerFeed(1)

Spec == Init /\ [][Next]_vars

\* SpecRemotes: the host operations with reloads of the remote page (whose channel
\* is joined some time after the load), while a second remote page of the same host
\* is open, which is in step with the store and on which the host ends the game
NextRemotes ==
  \/ startGame
  \/ HostInsertQuestionState
  \/ pauseResume
  \/ endQuestionEarly
  \/ showLeaderboard
  \/ nextQuestion
  \/ endGame
  \/ \E pid \in 1 .. Len(players) : kickPlayer(pid)
  \/ HostLoad
  \/ HostSubscribe
  \/ HostFeed
  \/ SessionEnds(LiveSession)
  \/ SessionRestarts(LiveSession)
  \/ JoinRead(1, NameAlex)
  \/ JoinInsert(1)
  \/ PlayerFeed(1)

SpecRemotes == Init /\ [][NextRemotes]_vars

\* SpecTimed: one question against the clock (pause, resume, lock, answers)
NextTimed ==
  \/ Tick
  \/ startGame
  \/ HostInsertQuestionState
  \/ pauseResume
  \/ endQuestionEarly
  \/ HostFeed
  \/ JoinRead(1, NameAlex)
  \/ JoinInsert(1)
  \/ \E ch \in Choices, clock \in PlayerClocks : handleAnswer(1, ch, clock)
  \/ Render(1)
  \/ AnswerInsert(1, 1)
  \/ PlayerFeed(1)

SpecTimed == Init /\ [][NextTimed]_vars

\* SpecPaused: one question against the clock, paused and resumed, answered by a
\* player whose clock agrees with the host's
NextPaused ==
  \/ Tick
  \/ startGame
  \/ HostInsertQuestionState
  \/ pauseResume
  \/ HostFeed
  \/ JoinRead(1, NameAlex)
  \/ JoinInsert(1)
  \/ \E ch \in Choices : handleAnswer(1, ch, now)
  \/ Render(1)
  \/ AnswerInsert(1, 1)
  \/ PlayerFeed(1)

SpecPaused == Init /\ [][NextPaused]_vars

\* SpecClients: one question against the clock while the pages count down, are
\* reloaded, leave their channel and join it again
NextClients ==
  \/ Tick
  \/ startGame
  \/ HostInsertQuestionState
  \/ pauseResume
  \/ endQuestionEarly
  \/ HostFeed
  \/ JoinRead(1, NameAlex)
  \/ JoinInsert(1)
  \/ PlayerFeed(1)
  \/ PlayerCountdown(1, now)
  \/ PlayerReload(1)
  \/ PlayerSubscribe(1)
  \/ DisplayLoad
  \/ DisplaySubscribe
  \/ DisplayFeed
  \/ DisplayCountdown(now)

SpecClients == Init /\ [][NextClients]_vars

\* SpecExpiry: one question running to its scheduled end.  The clock, the pending
\* insert, the feeds and the countdowns of the pages go on by themselves; every
\* click on the remote and every tap of a player is left to the people.
NextExpiry ==
  \/ Tick
  \/ startGame
  \/ HostInsertQuestionState
  \/ endQuestionEarly
  \/ HostFeed
  \/ JoinRead(1, NameAlex)
  \/ JoinInsert(1)
  \/ PlayerFeed(1)
  \/ PlayerCountdown(1, now)
  \/ DisplayLoad
  \/ DisplaySubscribe
  \/ DisplayFeed
  \/ DisplayCountdown(now)

FairExpiry ==
  /\ WF_vars(Tick)
  /\ WF_vars(HostInsertQuestionState)
  /\ WF_vars(HostFeed)
  /\ WF_vars(JoinInsert(1))
  /\ WF_vars(PlayerFeed(1))
  /\ WF_vars(PlayerCountdown(1, now))
  /\ WF_vars(DisplaySubscribe)
  /\ WF_vars(DisplayFeed)
  /\ WF_vars(DisplayCountdown(now))

SpecExpiry == Init /\ [][NextExpiry]_vars /\ FairExpiry

\* SpecScores: two player devices answering the same question while the host ends it
InitScores == InitWith({Host, 1, 2})

NextScores ==
  \/ Tick
  \/ startGame
  \/ HostInsertQuestionState
  \/ endGame
  \/ HostFeed
  \/ \E c \in Clients : JoinRead(c, NameAlex)
  \/ \E c \in Clients : JoinInsert(c)
  \/ \E c \in Clients : PlayerFeed(c)
  \/ \E c \in Clients, ch \in Choices : handleAnswer(c, ch, now)
  \/ \E c \in Clients : AnswerInsert(c, 1)

SpecScores == InitScores /\ [][NextScores]_vars

\* SpecFeed: the session lifecycle and the question phases seen by the remote, a
\* player page and the display, which has loaded the lobby and joined its channel
InitFeed ==
  /\ sessions = <<NewSessionRow(LiveSession, 1, DefaultTimerSeconds, TRUE)>>
  /\ InitPages({Host, 1, Display})
  /\ d_session = Some(NewSessionRow(LiveSession, 1, DefaultTimerSeconds, TRUE))
  /\ d_qs = Null
  /\ d_players = {}
  /\ d_timeLeft = 0
  /\ d_showLeaderboard = FALSE
  /\ creator = [h \in Creators |-> CreatorIdle]
  /\ game_timer = DefaultTimerSeconds
  /\ scoring = Null
  /\ naming = Null

NextFeed ==
  \/ Tick
  \/ startGame
  \/ HostInsertQuestionState
  \/ pauseResume
  \/ endQuestionEarly
  \/ showLeaderboard
  \/ nextQuestion
  \/ endGame
  \/ \E pid \in 1 .. Len(players) : kickPlayer(pid)
  \/ HostFeed
  \/ JoinRead(1, NameAlex)
  \/ JoinInsert(1)
  \/ PlayerFeed(1)
  \/ DisplayFeed

SpecFeed == InitFeed /\ [][NextFeed]_vars

\* SpecRejoin: a player joins while the host starts the game and runs the first
\* question; the player page changes its channel when the join has set its player
NextRejoin ==
  \/ startGame
  \/ HostInsertQuestionState
  \/ pauseResume
  \/ endQuestionEarly
  \/ showLeaderboard
  \/ endGame
  \/ \E pid \in 1 .. Len(players) : kickPlayer(pid)
  \/ HostFeed
  \/ JoinRead(1, NameAlex)
  \/ JoinInsertResubscribing(1)
  \/ PlayerSubscribe(1)
  \/ PlayerFeed(1)

SpecRejoin == Init /\ [][NextRejoin]_vars

\* SpecPhases: the questions of a game taken through their phases to the last one;
\* the host never clicks End Game, so the session finishes by nextQuestion alone
NextPhases ==
  \/ startGame
  \/ HostInsertQuestionState
  \/ pauseResume
  \/ endQuestionEarly
  \/ showLeaderboard
  \/ nextQuestion
  \/ HostFeed
  \/ JoinRead(1, NameAlex)
  \/ JoinInsert(1)
  \/ PlayerFeed(1)

SpecPhases == Init /\ [][NextPhases]_vars

\* SpecSettings: the game's timer setting is edited while a session of the game is
\* open; the remote page is loaded and reloaded, one question is run against the
\* clock and answered
NextSettings ==
  \/ Tick
  \/ \E t \in EditedTimers : SaveGameSettings(t)
  \/ HostLoad
  \/ HostSubscribe
  \/ startGame
  \/ HostInsertQuestionState
  \/ pauseResume
  \/ HostFeed
  \/ JoinRead(1, NameAlex)
  \/ JoinInsert(1)
  \/ PlayerFeed(1)
  \/ \E ch \in Choices : handleAnswer(1, ch, now)
  \/ AnswerInsert(1, 1)

SpecSettings == Init /\ [][NextSettings]_vars

\* SpecRoster: joins racing with each other, with removals and with the start
InitRoster == InitWith({Host, 1, 2})

NextRoster ==
  \/ startGame
  \/ HostInsertQuestionState
  \/ \E pid \in 1 .. Len(players) : kickPlayer(pid)
  \/ HostFeed
  \/ \E c \in Clients, n \in RequestedNames : JoinRead(c, n)
  \/ \E c \in Clients : JoinInsert(c)
  \/ \E c \in Clients : PlayerFeed(c)

SpecRoster == InitRoster /\ [][NextRoster]_vars

\* SpecCreate: hosts creating sessions concurrently while sessions start and end;
\* no page of a session is open
InitCreate ==
  /\ sessions = <<>>
  /\ InitClients({})
  /\ creator = [h \in Creators |-> CreatorIdle]
  /\ game_timer = DefaultTimerSeconds
  /\ scoring = Null
  /\ naming = Null

NextCreate ==
  \/ \E h \in Creators, code \in Codes : CreateBegin(h, code)
  \/ \E h \in Creators, code \in Codes : CreateCheck(h, code)
  \/ \E h \in Creators : CreateInsert(h)
  \/ \E sid \in 1 .. Len(sessions) : SessionStarts(sid)
  \/ \E sid \in 1 .. Len(sessions) : SessionEnds(sid)

SpecCreate == InitCreate /\ [][NextCreate]_vars

\* SpecPoints: the point computation applied to one input
InitPoints ==
  /\ sessions = <<>>
  /\ InitClients({})
  /\ creator = [h \in Creators |-> CreatorIdle]
  /\ game_timer = DefaultTimerSeconds
  /\ scoring \in {Some([isCorrect |-> c, timeMs |-> e, timerSeconds |-> t, speedBonus |-> b,
                        applied |-> FALSE, lib |-> 0, inline |-> 0]) :
                    c \in BOOLEAN, e \in ElapsedSamples, t \in TimerOptions, b \in BOOLEAN}
  /\ naming = Null

SpecPoints == InitPoints /\ [][ApplyPoints]_vars

\* SpecNames: the name resolution of a join applied to one typed name and roster
InitNames ==
  /\ sessions = <<>>
  /\ InitClients({})
  /\ creator = [h \in Creators |-> CreatorIdle]
  /\ game_timer = DefaultTimerSeconds
  /\ scoring = Null
  /\ naming \in {Some([displayName |-> d, existing |-> r, applied |-> FALSE,
                       finalName |-> <<>>]) : d \in TypedNames, r \in Rosters}

SpecNames == InitNames /\ [][ApplyResolveName]_vars

\* ------------------------------------------------------------- properties
\* C1: in every store state a session has status lobby exactly when its
\* current_question_index is -1, after creation, startGame, nextQuestion and endGame
C1_LobbyIffNoQuestion ==
  \A i \in 1 .. Len(sessions) :
    (sessions[i].status = "lobby") <=> (sessions[i].current_question_index = -1)

\* the session was started, advanced past its first question and then finished
C1_Witness ==
  \E i \in 1 .. Len(sessions) :
    /\ sessions[i].status = "finished"
    /\ sessions[i].current_question_index >= 1

SameTriple(a, b) ==
  /\ a.session_id = b.session_id
  /\ a.player_id = b.player_id
  /\ a.question_id = b.question_id

\* C2: at most one Answer row exists per (session, player, question); a further
\* submission for a stored triple adds no row, and no step changes a stored Answer
\* or changes a player's score other than by storing a new Answer of that player
C2_OneAnswerPerTriple ==
  [][/\ \A i, j \in 1 .. Len(answers') :
          SameTriple(answers'[i], answers'[j]) => i = j
     /\ Len(answers') >= Len(answers)
     /\ \A i \in 1 .. Len(answers) : answers'[i] = answers[i]
     /\ Len(players') >= Len(players)
     /\ \A p \in 1 .. Len(players) :
          players'[p].score # players[p].score =>
            /\ Len(answers') = Len(answers) + 1
            /\ answers'[Len(answers')].player_id = p
            /\ players'[p].score = players[p].score + answers'[Len(answers')].points_awarded
    ]_vars

\* the player tapped two different choices for one question, both inserts were
\* executed, and only one Answer for the question is stored
C2_Witness ==
  /\ p_out[1] = <<>>
  /\ ~IsNull(p_sel[1])
  /\ ~IsNull(p_qs[1])
  /\ ~IsNull(p_player[1])
  /\ \E i \in 1 .. Len(answers) :
       /\ answers[i].player_id = Val(p_player[1])
       /\ answers[i].question_id = Val(p_qs[1]).question_id
       /\ answers[i].choice_id # Val(p_sel[1])

\* the points of the first n Answer rows that belong to player pid
RECURSIVE AwardedUpTo(_, _)
AwardedUpTo(n, pid) ==
  IF n = 0 THEN 0
  ELSE AwardedUpTo(n - 1, pid)
       + (IF answers[n].player_id = pid THEN answers[n].points_awarded ELSE 0)

C6_LockedShowsResults ==
  \A i \in 1 .. Len(qstates) : qstates[i].is_locked => qstates[i].show_results

\* a question was locked while paused, and the next question is live and unlocked
C6_Witness ==
  \E i, j \in 1 .. Len(qstates) :
    /\ qstates[i].is_locked /\ qstates[i].is_paused /\ qstates[i].show_results
    /\ ~qstates[j].is_locked

\* r is 500 * max(0, 1 - e / (T * 1000)) rounded to the nearest integer, halves upwards
IsRoundedBonus(r, e, T) ==
  LET D == T * 1000
      N == IF e >= D THEN 0 ELSE 500 * (D - e)
  IN /\ 2 * r * D - D <= 2 * N
     /\ 2 * N < 2 * r * D + D

\* C4: the points of an answer are 0 when incorrect, 1000 when correct without the
\* speed bonus, and 1000 + round(500 * max(0, 1 - elapsedMs / (timerSeconds * 1000)))
\* when correct with it, in calculatePoints and in handleAnswer alike
C4_PointsAwarded ==
  (~IsNull(scoring) /\ Val(scoring).applied) =>
    LET in == Val(scoring)
    IN \A pts \in {in.lib, in.inline} :
         /\ ~in.isCorrect => pts = 0
         /\ (in.isCorrect /\ ~in.speedBonus) => pts = 1000
         /\ (in.isCorrect /\ in.speedBonus) => IsRoundedBonus(pts - 1000, in.timeMs, in.timerSeconds)
         /\ (in.isCorrect /\ in.speedBonus /\ in.timerSeconds = 30 /\ in.timeMs = 0) => pts = 1500
         /\ (in.isCorrect /\ in.speedBonus /\ in.timerSeconds = 30 /\ in.timeMs = 30000) => pts = 1000

\* a correct answer at 0 ms of a 30 s timer with the bonus scored 1500
C4_Witness ==
  /\ ~IsNull(scoring)
  /\ Val(scoring).applied
  /\ Val(scoring).isCorrect /\ Val(scoring).speedBonus
  /\ Val(scoring).timerSeconds = 30 /\ Val(scoring).timeMs = 0
  /\ Val(scoring).lib = 1500 /\ Val(scoring).inline = 1500

\* C5: every stored answer has at most 1500 points (a speed bonus of at most 500),
\* and a correct one at least 1000
C5_BonusWithinCap ==
  \A i \in 1 .. Len(answers) :
    /\ answers[i].points_awarded <= BASE_POINTS + MAX_SPEED_BONUS
    /\ answers[i].is_correct => answers[i].points_awarded >= BASE_POINTS

\* C7: a pause of a running question records the remaining time of the stored row,
\* max(0, ends_at - t1), and the resume of a paused question schedules its end that
\* remaining time after t2
C7_PauseResumeKeepsRemaining ==
  [][\A i \in 1 .. Len(qstates) :
       /\ (~qstates[i].is_paused /\ qstates'[i].is_paused) =>
            qstates'[i].paused_remaining_ms = Some(Max(0, Val(qstates[i].ends_at) - now))
       /\ (qstates[i].is_paused /\ ~qstates'[i].is_paused) =>
            Val(qstates'[i].ends_at) - now = Val(qstates[i].paused_remaining_ms)
    ]_vars

NameTaken(n, existing) == \E e \in existing : ToLowerCase(e) = ToLowerCase(n)

\* C8: a join whose trimmed name collides, case-insensitively, with an existing
\* name stores the name followed by the smallest k >= 2 whose suffixed name is not
\* taken; without a collision the trimmed name is stored unchanged
C8_SmallestFreeSuffix ==
  (~IsNull(naming) /\ Val(naming).applied) =>
    LET in == Val(naming)
        t == Trim(in.displayName)
    IN IF NameTaken(t, in.existing)
       THEN \E k \in 2 .. (Cardinality(in.existing) + 2) :
              /\ in.finalName = t \o NumberToString(k)
              /\ ~NameTaken(t \o NumberToString(k), in.existing)
              /\ \A j \in 2 .. (k - 1) : NameTaken(t \o NumberToString(j), in.existing)
       ELSE in.finalName = t

\* "Alex" joined a roster holding "Alex" and "alex2" and became "Alex3"
C8_Witness ==
  /\ ~IsNull(naming)
  /\ Val(naming).applied
  /\ Val(naming).displayName = NameAlex
  /\ Val(naming).existing = {NameAlex, NameAlexLower \o <<"2">>}
  /\ Val(naming).finalName = NameAlex \o <<"3">>

\* C9: no two non-removed players of the session have display names that are equal
\* case-insensitively
C9_ActiveNamesUnique ==
  \A i, j \in 1 .. Len(players) :
    (/\ i # j
     /\ ~players[i].is_removed
     /\ ~players[j].is_removed) =>
      ToLowerCase(players[i].display_name) # ToLowerCase(players[j].display_name)

\* the codes of the sessions that are not finished
ActiveCodes == {sessions[i].code : i \in {j \in 1 .. Len(sessions) : sessions[j].status # "finished"}}

C11_ActiveCodesDistinct ==
  [][/\ \A i, j \in 1 .. Len(sessions') :
          (/\ i # j
           /\ sessions'[i].status # "finished"
           /\ sessions'[j].status # "finished") => sessions'[i].code # sessions'[j].code
     /\ \A h \in Creators :
          (/\ creator[h].pc = "insert"
           /\ creator'[h].pc = "idle"
           /\ creator[h].code \in ActiveCodes) =>
            /\ sessions' = sessions
            /\ creator'[h].error
    ]_vars

\* a creation was rejected at its insert while a finished and an unfinished session
\* hold the same code
C11_Witness ==
  /\ \E h \in Creators : creator[h].pc = "idle" /\ creator[h].error
  /\ \E i, j \in 1 .. Len(sessions) :
       /\ sessions[i].code = sessions[j].code
       /\ sessions[i].status = "finished"
       /\ sessions[j].status # "finished"

\* C12: a Player row is inserted only while the stored status of the session is
\* lobby; a join that reaches the store later, also from a page whose copy still
\* shows lobby, adds no row and leaves the page without a player
C12_JoinOnlyInLobby ==
  [][/\ Len(players') > Len(players) => sessions[LiveSession].status = "lobby"
     /\ \A c \in Clients :
          (/\ ~IsNull(p_join[c])
           /\ IsNull(p_join'[c])
           /\ sessions[LiveSession].status # "lobby") =>
            /\ players' = players
            /\ p_player'[c] = p_player[c]
            /\ p_error'[c]
    ]_vars

\* a join sent from a page that still shows lobby was rejected by the playing session
C12_Witness ==
  \E c \in Clients :
    /\ p_error[c]
    /\ IsNull(p_player[c])
    /\ p_session[c].status = "lobby"
    /\ sessions[LiveSession].status = "playing"
\* C13: the stored status of a session only moves lobby -> playing -> finished: it
\* never goes from playing to lobby or from finished to another status
C13_StatusMonotone ==
  [][\A i \in 1 .. Len(sessions) :
       /\ sessions[i].status = "playing" => sessions'[i].status # "lobby"
       /\ sessions[i].status = "finished" => sessions'[i].status = "finished"
    ]_vars
\* C14: in every store state with status playing, current_question_index is at
\* least 0 and less than the number of questions of the game
C14_IndexInRangeWhilePlaying ==
  \A i \in 1 .. Len(sessions) :
    sessions[i].status = "playing" =>
      /\ sessions[i].current_question_index >= 0
      /\ sessions[i].current_question_index < NumQuestions

\* the last question is current and the host, whose copy still shows the previous
\* question's leaderboard, has Next Question enabled again
C14_Witness ==
  /\ sessions[LiveSession].status = "playing"
  /\ sessions[LiveSession].current_question_index = NumQuestions - 1
  /\ h_session.current_question_index = NumQuestions - 1
  /\ HostIdle
  /\ ~IsNull(h_qs)
  /\ Val(h_qs).show_leaderboard
\* the question rows of the index the session points at
CurrentRows(i) ==
  {r \in 1 .. Len(qstates) : qstates[r].question_index = sessions[i].current_question_index}

\* C15 as stated: in every store state with status playing exactly one question row
\* has the session's current_question_index
C15_ExactlyOneCurrentRow ==
  \A i \in 1 .. Len(sessions) :
    sessions[i].status = "playing" => Cardinality(CurrentRows(i)) = 1

\* C15: in every store state with status playing at most one question row has the
\* session's current_question_index, and one exists unless the host page is between
\* the sessions update and the insert of startGame or nextQuestion
C15_CurrentRowOnceInserted ==
  sessions[LiveSession].status = "playing" =>
    /\ Cardinality(CurrentRows(LiveSession)) <= 1
    /\ HostIdle => Cardinality(CurrentRows(LiveSession)) = 1

\* the session is playing at the second question, whose row is not inserted yet,
\* and the player's page has already received that session
C15_Witness ==
  /\ sessions[LiveSession].status = "playing"
  /\ sessions[LiveSession].current_question_index = 1
  /\ CurrentRows(LiveSession) = {}
  /\ ~HostIdle
  /\ p_session[1].current_question_index = 1
\* C16: at most one question row ever exists per question index: an activation of
\* an index that has a row adds none and alters no row, and rows are never deleted
C16_OneRowPerIndex ==
  [][/\ \A i, j \in 1 .. Len(qstates') :
          qstates'[i].question_index = qstates'[j].question_index => i = j
     /\ Len(qstates') >= Len(qstates)
     /\ \A i \in 1 .. Len(qstates) :
          /\ qstates'[i].id = qstates[i].id
          /\ qstates'[i].question_index = qstates[i].question_index
     /\ (/\ ~IsNull(h_pc)
         /\ IsNull(h_pc')
         /\ \E i \in 1 .. Len(qstates) : qstates[i].question_index = Val(h_pc).index) =>
          qstates' = qstates
    ]_vars

\* the last change the player's channel holds is the sessions update of a startGame
\* or nextQuestion that has finished: its insert was rejected
C16_Witness ==
  /\ HostIdle
  /\ Len(qstates) >= 1
  /\ inbox[1] # <<>>
  /\ inbox[1][Len(inbox[1])].table = "sessions"
  /\ inbox[1][Len(inbox[1])].new.status = "playing"
\* C17: is_locked and show_results of a question row are monotone: once true in the
\* store, no later operation sets either back to false
C17_LockAndResultsStay ==
  [][\A i \in 1 .. Len(qstates) :
       /\ qstates[i].is_locked => qstates'[i].is_locked
       /\ qstates[i].show_results => qstates'[i].show_results
    ]_vars

\* the host clicked End Question and then Pause from a copy without the lock: the
\* pause was written to the locked row and the row kept both flags
C17_Witness ==
  /\ Len(inbox[Host]) = 2
  /\ inbox[Host][1].table = "session_question_state"
  /\ inbox[Host][1].new.is_locked /\ ~inbox[Host][1].new.is_paused
  /\ inbox[Host][2].table = "session_question_state"
  /\ inbox[Host][2].new.id = inbox[Host][1].new.id
  /\ inbox[Host][2].new.is_paused
  /\ inbox[Host][2].new.is_locked /\ inbox[Host][2].new.show_results

\* C18: in every store state a question row with show_leaderboard has show_results
C18_LeaderboardAfterResults ==
  \A i \in 1 .. Len(qstates) : qstates[i].show_leaderboard => qstates[i].show_results

\* the leaderboard of the current question of a playing session is revealed
C18_Witness ==
  /\ sessions[LiveSession].status = "playing"
  /\ \E i \in 1 .. Len(qstates) :
       /\ qstates[i].question_index = sessions[LiveSession].current_question_index
       /\ qstates[i].show_leaderboard
       /\ qstates[i].show_results
\* C19: once the stored status of a session is finished, no operation is accepted:
\* no Player row and no Answer row is inserted, no question row is inserted or
\* updated, and current_question_index and ended_at do not change
C19_FinishedIsTerminal ==
  [][sessions[LiveSession].status = "finished" =>
       /\ Len(players') = Len(players)
       /\ Len(answers') = Len(answers)
       /\ qstates' = qstates
       /\ sessions'[LiveSession].current_question_index
            = sessions[LiveSession].current_question_index
       /\ sessions'[LiveSession].ended_at = sessions[LiveSession].ended_at
    ]_vars
\* C20: a pause is written only to a row that is active in the store: a row becomes
\* paused only when it is not locked, and the remaining time recorded on a paused
\* row is not written again while it stays paused
C20_PauseOnlyActiveRow ==
  [][\A i \in 1 .. Len(qstates) :
       /\ (~qstates[i].is_paused /\ qstates'[i].is_paused) => ~qstates[i].is_locked
       /\ (qstates[i].is_paused /\ qstates'[i].is_paused) =>
            qstates'[i].paused_remaining_ms = qstates[i].paused_remaining_ms
    ]_vars
\* C21 as stated: in every store state a paused row has no scheduled end and holds
\* a remaining time, and a row holds a remaining time only while it is paused
C21_PausedHasNoEnd ==
  \A i \in 1 .. Len(qstates) :
    /\ qstates[i].is_paused =>
         /\ IsNull(qstates[i].ends_at)
         /\ ~IsNull(qstates[i].paused_remaining_ms)
    /\ ~IsNull(qstates[i].paused_remaining_ms) => qstates[i].is_paused

\* C21: a row holds a remaining time exactly while it is paused; the pause writes
\* max(0, end - now), with the end of the host page's copy of the row, and leaves
\* the row's ends_at and started_at as they were: the scheduled end is never null
C21_PauseKeepsScheduledEnd ==
  [][\A i \in 1 .. Len(qstates') :
       /\ qstates'[i].is_paused <=> ~IsNull(qstates'[i].paused_remaining_ms)
       /\ ~IsNull(qstates'[i].ends_at)
       /\ (/\ i <= Len(qstates)
           /\ qstates'[i].is_paused
           /\ \/ ~qstates[i].is_paused
              \/ qstates'[i].paused_remaining_ms # qstates[i].paused_remaining_ms) =>
            /\ qstates'[i].ends_at = qstates[i].ends_at
            /\ qstates'[i].started_at = qstates[i].started_at
            /\ ~IsNull(h_qs)
            /\ qstates'[i].paused_remaining_ms
                 = Some(Max(0, Val(Val(h_qs).ends_at) - now))
    ]_vars

\* a question was paused half way through its timer: the row holds the remaining
\* 15 s and still holds the end scheduled at its start
C21_Witness ==
  \E i \in 1 .. Len(qstates) :
    /\ qstates[i].is_paused
    /\ qstates[i].paused_remaining_ms = Some(TickMs)
    /\ qstates[i].ends_at = Some(DefaultTimerSeconds * 1000)
    /\ qstates[i].started_at = Some(0)
\* C22: a resume is applied only to a row that is paused in the store: ends_at and
\* started_at of a row change, and its pause is lifted, only in a step from a paused
\* row, so that a second resume from a stale copy moves neither time again
C22_ResumeOnlyPausedRow ==
  [][\A i \in 1 .. Len(qstates) :
       (\/ qstates'[i].ends_at # qstates[i].ends_at
        \/ qstates'[i].started_at # qstates[i].started_at) => qstates[i].is_paused
    ]_vars
\* C23: the elapsed time an answer is scored with is its submission time minus the
\* stored started_at of its question, and a resume stores the started_at that makes
\* the elapsed time at the resume timerDuration*1000 - remaining at the pause; so an
\* answer after a pause and resume is scored with
\* (timerDuration*1000 - remaining) + (submission time - resume time)
C23_ElapsedExcludesPause ==
  [][/\ \A i \in 1 .. Len(qstates) :
          (qstates[i].is_paused /\ ~qstates'[i].is_paused) =>
            now - Val(qstates'[i].started_at)
              = h_timerSeconds * 1000 - Val(qstates[i].paused_remaining_ms)
     /\ Len(p_out'[1]) = Len(p_out[1]) + 1 =>
          LET sent == p_out'[1][Len(p_out'[1])]
          IN \A i \in 1 .. Len(qstates) :
               qstates[i].question_id = sent.question_id =>
                 sent.time_ms = now - Val(qstates[i].started_at)
    ]_vars
\* C24: no Answer row is inserted for a question whose row is locked in the store
\* at the time of the insert
C24_NoAnswerOnLockedRow ==
  [][Len(answers') > Len(answers) =>
       \A i \in 1 .. Len(qstates) :
         qstates[i].question_id = answers'[Len(answers')].question_id =>
           ~qstates[i].is_locked
    ]_vars
\* C27: in every store state a session's ended_at is non-null exactly when its
\* status is finished; the write that finishes a session stamps ended_at, leaves
\* current_question_index alone and creates no question row, and no other write
\* changes ended_at
C27_EndedIffFinished ==
  [][\A i \in 1 .. Len(sessions') :
       /\ ~IsNull(sessions'[i].ended_at) <=> sessions'[i].status = "finished"
       /\ (i <= Len(sessions) /\ sessions'[i].ended_at # sessions[i].ended_at) =>
            /\ sessions[i].status # "finished"
            /\ sessions'[i].status = "finished"
            /\ sessions'[i].ended_at = Some(now)
            /\ sessions'[i].current_question_index = sessions[i].current_question_index
            /\ qstates' = qstates
    ]_vars
\* C28: questions are activated in strictly increasing index order: a question row
\* is created only with an index greater than that of every existing row, and a
\* session's current_question_index never decreases
C28_IndexesIncrease ==
  [][/\ Len(qstates') > Len(qstates) =>
          \A i \in 1 .. Len(qstates) :
            qstates[i].question_index < qstates'[Len(qstates')].question_index
     /\ \A i \in 1 .. Len(sessions) :
          sessions'[i].current_question_index >= sessions[i].current_question_index
    ]_vars
\* C29: a start takes effect only from lobby: the stored status becomes playing only
\* from lobby, and the remote page issues a start only while its copy shows the
\* lobby with at least one player and the game has at least one question
C29_StartOnlyFromLobby ==
  [][/\ \A i \in 1 .. Len(sessions) :
          (sessions[i].status # "playing" /\ sessions'[i].status = "playing") =>
            sessions[i].status = "lobby"
     /\ (IsNull(h_pc) /\ ~IsNull(h_pc') /\ sessions'[LiveSession].current_question_index = 0) =>
          /\ h_session.status = "lobby"
          /\ h_players # {}
          /\ NumQuestions >= 1
    ]_vars
\* C25: no countdown run, reload, channel leave or channel join of a page writes to
\* the store; started_at and ends_at of a row change only in the resume, and
\* is_locked and show_results only in the lock-and-reveal, that the host issues from
\* the live controls of the remote; and a page holds a locked copy of a row only if
\* the stored row is locked: a countdown that has reached zero locks nothing
C25_ClientEventsWriteNothing ==
  [][/\ (\/ p_timeLeft' # p_timeLeft
         \/ d_timeLeft' # d_timeLeft
         \/ subscribed' # subscribed) => storeVars' = storeVars
     /\ \A i \in 1 .. Len(qstates) :
          /\ (\/ qstates'[i].started_at # qstates[i].started_at
              \/ qstates'[i].ends_at # qstates[i].ends_at) =>
               /\ HostStepLive /\ Val(h_qs).is_paused /\ Val(h_qs).id = i
               /\ ~qstates'[i].is_paused
               /\ playerVars' = playerVars /\ displayVars' = displayVars
          /\ (\/ qstates'[i].is_locked # qstates[i].is_locked
              \/ qstates'[i].show_results # qstates[i].show_results) =>
               /\ HostStepLive /\ Val(h_qs).id = i
               /\ qstates'[i].is_locked /\ qstates'[i].show_results
               /\ playerVars' = playerVars /\ displayVars' = displayVars
     /\ \A c \in Clients :
          (~IsNull(p_qs'[c]) /\ Val(p_qs'[c]).is_locked) =>
            qstates'[Val(p_qs'[c]).id].is_locked
     /\ (~IsNull(d_qs') /\ Val(d_qs').is_locked) => qstates'[Val(d_qs').id].is_locked
    ]_vars

\* the scheduled end has passed, the player's page and the display show a countdown
\* of zero, the stored row is not locked and the player's answer buttons are enabled
C25_Witness ==
  /\ Len(qstates) = 1
  /\ ~qstates[1].is_locked /\ ~qstates[1].is_paused
  /\ now >= Val(qstates[1].ends_at)
  /\ p_qs[1] = Some(qstates[1])
  /\ d_qs = Some(qstates[1])
  /\ p_timeLeft[1] = 0
  /\ d_timeLeft = 0
  /\ CanAnswer(1)
  /\ Display \in subscribed
\* C26: once the scheduled end of a running question has passed, the question's row
\* eventually is locked with show_results, without End Question being clicked
C26_TimerEndLocks ==
  \A i \in 1 .. NumQuestions :
    (/\ i <= Len(qstates)
     /\ ~qstates[i].is_paused
     /\ ~qstates[i].is_locked
     /\ now >= Val(qstates[i].ends_at))
    ~> (/\ i <= Len(qstates)
        /\ qstates[i].is_locked
        /\ qstates[i].show_results)
\* page c handles, in this step, a session_players event that carries a removed row
HandlesRemoval(c) ==
  /\ inbox[c] # <<>>
  /\ inbox'[c] = Tail(inbox[c])
  /\ Head(inbox[c]).table = "session_players"
  /\ Head(inbox[c]).new.is_removed

\* a removal of player id is still waiting in the channel of page c
RemovalPending(c, id) ==
  \E k \in 1 .. Len(inbox[c]) :
    /\ inbox[c][k].table = "session_players"
    /\ inbox[c][k].new.id = id
    /\ inbox[c][k].new.is_removed

\* C30: the removed flag of a player is never cleared; a page that handles the
\* event of a removal (or a later score update of the removed player) has the player
\* out of its players list afterwards, and no page adds to its list a player whose
\* removal it has handled: the remote, the display and every player page alike
C30_RemovedStaysOut ==
  [][/\ \A i \in 1 .. Len(players) : players[i].is_removed => players'[i].is_removed
     /\ HandlesRemoval(Host) => Head(inbox[Host]).new.id \notin h_players'
     /\ HandlesRemoval(Display) => Head(inbox[Display]).new.id \notin d_players'
     /\ \A c \in Clients : HandlesRemoval(c) => Head(inbox[c]).new.id \notin p_players'[c]
     /\ \A i \in 1 .. Len(players) :
          /\ (i \in h_players' \ h_players /\ players[i].is_removed) => RemovalPending(Host, i)'
          /\ (i \in d_players' \ d_players /\ players[i].is_removed) => RemovalPending(Display, i)'
          /\ \A c \in Clients :
               (i \in p_players'[c] \ p_players[c] /\ players[i].is_removed) =>
                 RemovalPending(c, i)'
    ]_vars
\* C31: the page of a player that handles the event of its own removal shows the
\* removed view, and no event handled afterwards (a new question, results, the
\* leaderboard, the end of the session) takes the page out of the removed phase
C31_RemovedIsTerminal ==
  [][\A c \in Clients :
       /\ (/\ HandlesRemoval(c)
           /\ p_player[c] = Some(Head(inbox[c]).new.id)) => p_phase'[c] = "removed"
       /\ (/\ p_phase[c] = "removed"
           /\ inbox[c] # <<>>
           /\ inbox'[c] = Tail(inbox[c])) => p_phase'[c] = "removed"
    ]_vars
\* C32: the insert of an answer changes the score of the answer's player, to the sum
\* of that player's answers, and no other field and no other row of session_players;
\* it changes neither whether a waiting insert of another player will be accepted by
\* the unique constraint nor the score that insert will give, so the scores after the
\* inserts of different players do not depend on the order the store executes them in
C32_ScoreUpdateIsLocal ==
  [][Len(answers') > Len(answers) =>
       LET r == answers'[Len(answers')]
       IN /\ \A i \in 1 .. Len(players) : i # r.player_id => players'[i] = players[i]
          /\ players'[r.player_id] =
               [players[r.player_id] EXCEPT !.score = SumPoints(answers', r.player_id)]
          /\ \A c \in Clients : \A k \in 1 .. Len(p_out[c]) :
               LET b == p_out[c][k]
               IN b.player_id # r.player_id =>
                    /\ AnswerUnique(b) <=> AnswerUnique(b)'
                    /\ SumPoints(Append(answers, b), b.player_id)
                         = SumPoints(Append(answers', b), b.player_id)
    ]_vars

\* both players have a stored answer, the later-joined player's was stored first,
\* and the two scores differ
C32_Witness ==
  /\ Len(answers) = 2
  /\ answers[1].player_id = 2
  /\ answers[2].player_id = 1
  /\ players[1].score = 1500
  /\ players[2].score = 1250
\* C33: a page that is opened again (it leaves the channel it held) loads from the
\* store alone: when the load is done it holds the stored session, the players that
\* are not removed and, while the session is playing, the stored question state row
\* of the current question; a player page also holds the player's stored answer for
\* that question, if there is one
C33_LoadIsFullResync ==
  [][/\ (Host \in subscribed /\ Host \notin subscribed') =>
          /\ h_session' = sessions'[LiveSession]
          /\ h_players' = {i \in 1 .. Len(players') : ~players'[i].is_removed}
          /\ (sessions'[LiveSession].status = "playing" /\ CurrentRows(LiveSession)' # {}) =>
               (~IsNull(h_qs') /\ Val(h_qs').id \in CurrentRows(LiveSession)' /\ Val(h_qs') = qstates'[Val(h_qs').id])
     /\ (Display \in subscribed /\ Display \notin subscribed') =>
          /\ d_session' = Some(sessions'[LiveSession])
          /\ (sessions'[LiveSession].status = "playing") =>
               /\ d_players' = {i \in 1 .. Len(players') : ~players'[i].is_removed}
               /\ CurrentRows(LiveSession)' # {} =>
                    (~IsNull(d_qs') /\ Val(d_qs').id \in CurrentRows(LiveSession)' /\ Val(d_qs') = qstates'[Val(d_qs').id])
     /\ \A c \in Clients :
          (c \in subscribed /\ c \notin subscribed' /\ sessions'[LiveSession].status = "playing") =>
            /\ p_session'[c] = sessions'[LiveSession]
            /\ p_players'[c] = {i \in 1 .. Len(players') : ~players'[i].is_removed}
            /\ CurrentRows(LiveSession)' # {} =>
                 /\ ~IsNull(p_qs'[c])
                 /\ Val(p_qs'[c]).id \in CurrentRows(LiveSession)'
                 /\ Val(p_qs'[c]) = qstates'[Val(p_qs'[c]).id]
                 /\ \A i \in 1 .. Len(answers') :
                      (/\ ~IsNull(p_player'[c])
                       /\ answers'[i].player_id = Val(p_player'[c])
                       /\ answers'[i].question_id = Val(p_qs'[c]).question_id) =>
                        /\ p_sel'[c] = Some(answers'[i].choice_id)
                        /\ p_result'[c] = Some([correct |-> answers'[i].is_correct,
                                                points |-> answers'[i].points_awarded])
    ]_vars
\* C34: a subscribed page that has handled every event of its channel holds the
\* stored session row and, if the store has a question state row for the session's
\* current index, that row: the remote, the display and the player page alike
C34_DeliveredMeansInStep ==
  /\ (Host \in subscribed /\ inbox[Host] = <<>>) =>
       /\ h_session = sessions[LiveSession]
       /\ \A i \in CurrentRows(LiveSession) : h_qs = Some(qstates[i])
  /\ (Display \in subscribed /\ inbox[Display] = <<>>) =>
       /\ d_session = Some(sessions[LiveSession])
       /\ \A i \in CurrentRows(LiveSession) : d_qs = Some(qstates[i])
  /\ \A c \in Clients :
       (c \in subscribed /\ inbox[c] = <<>>) =>
         /\ p_session[c] = sessions[LiveSession]
         /\ \A i \in CurrentRows(LiveSession) : p_qs[c] = Some(qstates[i])
\* C35: the store leaves a question (nextQuestion moves current_question_index on,
\* or finishes the session after the last question) only when the stored row of that
\* question is locked, shows the results and shows the leaderboard, also when the
\* host clicks Next Question before the remote has handled the events of the click
\* before; and a row shows the leaderboard only when it shows the results
C35_PhasesInOrder ==
  [][\A s \in 1 .. Len(sessions) :
       /\ (/\ sessions[s].status = "playing"
           /\ \/ sessions'[s].current_question_index # sessions[s].current_question_index
              \/ sessions'[s].status = "finished") =>
            /\ CurrentRows(s) # {}
            /\ \A i \in CurrentRows(s) :
                 /\ qstates[i].is_locked
                 /\ qstates[i].show_results
                 /\ qstates[i].show_leaderboard
       /\ \A i \in 1 .. Len(qstates') : qstates'[i].show_leaderboard => qstates'[i].show_results
    ]_vars
\* the store schedules row i in this step: the row is inserted or resumed
Scheduled(i) ==
  \/ i > Len(qstates)
  \/ qstates[i].is_paused /\ ~qstates'[i].is_paused

\* C36: whenever the host activates or resumes a question, the duration between the
\* row's started_at and ends_at is the timer_seconds of the session's own row, which
\* is the duration the players' point computation uses, also when the game's timer
\* setting was edited after the session was created
C36_HostUsesSessionTimer ==
  [][\A i \in 1 .. Len(qstates') :
       Scheduled(i) =>
         Val(qstates'[i].ends_at) - Val(qstates'[i].started_at)
           = sessions[LiveSession].timer_seconds * 1000
    ]_vars
\* C37: for every input (isCorrect, elapsed ms, timer seconds, speed-bonus flag) the
\* computation written out in handleAnswer gives the value calculatePoints gives
C37_InlineEqualsCalculatePoints ==
  (~IsNull(scoring) /\ Val(scoring).applied) => Val(scoring).inline = Val(scoring).lib

\* a correct answer after the end of a 30 s timer, where the fraction is clamped to 0,
\* scored 1000 by both
C37_Witness ==
  /\ ~IsNull(scoring)
  /\ Val(scoring).applied
  /\ Val(scoring).isCorrect /\ Val(scoring).speedBonus
  /\ Val(scoring).timerSeconds = 30 /\ Val(scoring).timeMs = 45000
  /\ Val(scoring).lib = 1000 /\ Val(scoring).inline = 1000
\* C38: right after the host activates a question and right after every resume, the
\* row's ends_at - started_at is the timer duration the remote schedules with
\* (timerSeconds * 1000), however often the question was paused and resumed before
C38_WindowIsTimerDuration ==
  [][\A i \in 1 .. Len(qstates') :
       Scheduled(i) =>
         /\ ~IsNull(qstates'[i].started_at)
         /\ ~IsNull(qstates'[i].ends_at)
         /\ Val(qstates'[i].ends_at) - Val(qstates'[i].started_at) = h_timerSeconds * 1000
    ]_vars

\* the question was activated at 0 (the player page still holds that row) and has been
\* resumed after 15 s of pause: the stored row runs from 15000 to 45000
C38_Witness ==
  /\ Len(qstates) = 1
  /\ ~qstates[1].is_paused
  /\ qstates[1].started_at = Some(15000)
  /\ qstates[1].ends_at = Some(45000)
  /\ h_timerSeconds = 30
  /\ ~IsNull(p_qs[1])
  /\ Val(p_qs[1]).started_at = Some(0)
  /\ Val(p_qs[1]).ends_at = Some(30000)
\* C39: when none of a player page's inserts is in flight and the page has handled
\* every event of its channel, the choice, the correctness and the points it shows for
\* the question (answered and results views) are those of the player's stored answer
\* for that question; in particular the page does not show an attempt whose insert the
\* store rejected
C39_ShownResultIsStoredAnswer ==
  \A c \in Clients :
    (/\ p_phase[c] \in {"answered", "results"}
     /\ ~IsNull(p_result[c])
     /\ ~IsNull(p_qs[c])
     /\ ~IsNull(p_player[c])
     /\ p_out[c] = <<>>
     /\ inbox[c] = <<>>) =>
      \E i \in 1 .. Len(answers) :
        /\ answers[i].player_id = Val(p_player[c])
        /\ answers[i].question_id = Val(p_qs[c]).question_id
        /\ p_sel[c] = Some(answers[i].choice_id)
        /\ Val(p_result[c]).correct = answers[i].is_correct
        /\ Val(p_result[c]).points = answers[i].points_awarded
\* C40: a player page that shows the finished view and has handled every event of its
\* channel shows, as the player's own points, the player's stored score (the sum of
\* the points of the player's answers), and finds the player in the list it ranks
C40_FinishedShowsStoredScore ==
  \A c \in Clients :
    (/\ p_phase[c] = "finished"
     /\ ~IsNull(p_player[c])
     /\ c \in subscribed
     /\ inbox[c] = <<>>
     /\ p_out[c] = <<>>) =>
      /\ p_score[c] = players[Val(p_player[c])].score
      /\ p_score[c] = SumPoints(answers, Val(p_player[c]))
      /\ Val(p_player[c]) \in p_players[c]
====
